---- MODULE Spec2Model ----
(***************************************************************************)
(* Random hyperparameter search: sample_hyperparameters draws one value    *)
(* per hyperparameter from a parameter space, train_and_evaluate trains a  *)
(* model for a fixed number of epochs and reports the best mean validation *)
(* loss.  Source: src/hyperparameter_utils.py.                             *)
(*                                                                         *)
(* The program counter pc names the source line about to be executed.      *)
(* The collaborators (model_class, criterion, torch) are modelled by what  *)
(* this code observes of them: the mode switch, the gradient accumulator,  *)
(* a count of optimizer steps, the number of batches of a loader and the   *)
(* float each loss.item() yields.                                          *)
(***************************************************************************)
EXTENDS Integers, Sequences, FiniteSets

\* ------------------------------------------------------------------ bounds
MaxData == 2      \* datasets hold 0..MaxData samples
MaxEpochs == 2    \* num_epochs ranges over 0..MaxEpochs
FloatMax == 1     \* largest finite float; a larger sum overflows to +inf

\* ------------------------------------------------------------------ floats
\* A Python float: finite n/d, +inf or nan.  Unset marks a local that has
\* not been assigned yet.
Fin(n, d) == [k |-> "fin", n |-> n, d |-> d]
Inf == [k |-> "inf", n |-> 0, d |-> 1]
NaN == [k |-> "nan", n |-> 0, d |-> 1]
Unset == [k |-> "unset", n |-> 0, d |-> 1]
\* The tensor criterion returns; this code reads its value only by item().
Tensor == [k |-> "tensor", n |-> 0, d |-> 1]

IsFinite(a) == a.k = "fin"
IsNaN(a) == a.k = "nan"

\* a < b on floats: every comparison with nan is false.
FLt(a, b) ==
    CASE IsNaN(a) \/ IsNaN(b) -> FALSE
      [] a.k = "inf" -> FALSE
      [] b.k = "inf" -> TRUE
      [] OTHER -> a.n * b.d < b.n * a.d

\* validate_loss += loss.item(): the accumulator has denominator 1 here.
FAdd(a, b) ==
    CASE IsNaN(a) \/ IsNaN(b) -> NaN
      [] a.k = "inf" \/ b.k = "inf" -> Inf
      [] a.n + b.n > FloatMax -> Inf
      [] OTHER -> Fin(a.n + b.n, 1)

\* validate_loss /= len(validate_loader), for a divisor m > 0.
FDiv(a, m) == IF IsFinite(a) THEN Fin(a.n, a.d * m) ELSE a

\* The floats criterion(...).item() can yield (losses are taken non-negative).
FiniteLosses == {Fin(n, 1) : n \in 0..FloatMax}
LossVals == FiniteLosses \cup {Inf, NaN}

\* ------------------------------------------------------- parameter spaces
KeyOrder == <<"hidden_layers", "dropout_rate", "learning_rate", "batch_size">>
Keys == {KeyOrder[i] : i \in 1..Len(KeyOrder)}

Range(s) == {s[i] : i \in 1..Len(s)}

\* The candidate values the enumerated parameter spaces are built from:
\* hidden_layers candidates are lists of layer widths, dropout_rate in
\* tenths, learning_rate in thousandths, batch_size in samples.
Candidates ==
    [hidden_layers |-> << <<16>>, <<32, 16>> >>,
     dropout_rate |-> <<0, 5>>,
     learning_rate |-> <<1, 10>>,
     batch_size |-> <<1, 2>>]

\* Option 0: the key is absent; 1: an empty list; 2: one candidate; 3: two.
\* The enumerated spaces give two candidates to at most one key: the draws
\* of different keys do not interact.
Options == 0..3
MkSpace(o) ==
    [key \in {x \in Keys : o[x] # 0} |-> SubSeq(Candidates[key], 1, o[key] - 1)]
ParamSpaces ==
    {MkSpace(o) : o \in {f \in [Keys -> Options] :
                            Cardinality({key \in Keys : f[key] = 3}) <= 1}}

NoConfig == [key \in {} |-> 0]
NoResult == <<Unset, NoConfig>>

VARIABLES
    param_space,        \* the caller's parameter space
    param_space_in,     \* history: param_space as first supplied
    sampled,            \* value returned by the last sample_hyperparameters
    sample_state,       \* "not_called", "returned" or "raised"
    sample_error,       \* exception raised by the last sample call
    pc,                 \* position in train_and_evaluate
    params,             \* argument params
    params_in,          \* history: params on entry
    train_size,         \* len(train_dataset)
    val_size,           \* len(validate_dataset)
    num_epochs,         \* argument num_epochs
    hidden_layers, dropout_rate, learning_rate, batch_size,   \* locals 41-44
    built,              \* model and optimizer exist
    mode,               \* model.training: "train" or "eval"
    grad_enabled,       \* torch.is_grad_enabled()
    weights,            \* number of optimizer steps applied to the parameters
    grads,              \* backward passes accumulated in .grad since zeroed
    n_train, n_val,     \* len(train_loader), len(validate_loader)
    epoch,              \* epochs entered so far
    batch,              \* batches drawn from the current loader
    loss,               \* local loss: Unset or the tensor
    validate_loss,      \* local validate_loss
    best_validate_loss, \* local best_validate_loss
    out,                \* messages printed
    result,             \* returned pair
    error,              \* exception that ended the call
    phases,             \* history: phases entered, in order
    means,              \* history: mean validation loss of each epoch
    batch_ops,          \* history: operations on the current training batch
    step_grads,         \* history: value of grads at each optimizer step
    w_at_val,           \* history: weights when the validation phase began
    items_finite        \* history: every validation loss.item() was finite

sampleVars == <<param_space, param_space_in, sampled, sample_state, sample_error>>
argVars == <<params, params_in, train_size, val_size, num_epochs>>
localVars == <<hidden_layers, dropout_rate, learning_rate, batch_size>>
modelVars == <<built, mode, grad_enabled, weights, grads>>
loaderVars == <<n_train, n_val>>
loopVars == <<epoch, batch, loss, validate_loss, best_validate_loss>>
ioVars == <<out, result, error>>
histVars == <<phases, means, batch_ops, step_grads, w_at_val, items_finite>>
vars == <<sampleVars, pc, argVars, localVars, modelVars, loaderVars, loopVars,
          ioVars, histVars>>

Init ==
    /\ param_space \in ParamSpaces
    /\ param_space_in = param_space
    /\ sampled = NoConfig
    /\ sample_state = "not_called"
    /\ sample_error = "none"
    /\ pc = "idle"
    /\ params = NoConfig
    /\ params_in = NoConfig
    /\ train_size = 0
    /\ val_size = 0
    /\ num_epochs = 0
    /\ hidden_layers = <<>>
    /\ dropout_rate = 0
    /\ learning_rate = 0
    /\ batch_size = 0
    /\ built = FALSE
    /\ mode = "train"
    /\ grad_enabled = TRUE
    /\ weights = 0
    /\ grads = 0
    /\ n_train = 0
    /\ n_val = 0
    /\ epoch = 0
    /\ batch = 0
    /\ loss = Unset
    /\ validate_loss = Unset
    /\ best_validate_loss = Unset
    /\ out = <<>>
    /\ result = NoResult
    /\ error = "none"
    /\ phases = <<>>
    /\ means = <<>>
    /\ batch_ops = <<>>
    /\ step_grads = 0
    /\ w_at_val = 0
    /\ items_finite = TRUE

\* ------------------------------------------------- sample_hyperparameters
\* The error the dict display raises, evaluating its four entries in order:
\* param_space[key] raises KeyError, random.choice of an empty list raises
\* IndexError.
RECURSIVE FirstError(_, _)
FirstError(ps, i) ==
    IF i > Len(KeyOrder) THEN "none"
    ELSE IF KeyOrder[i] \notin DOMAIN ps THEN "KeyError"
    ELSE IF Len(ps[KeyOrder[i]]) = 0 THEN "IndexError"
    ELSE FirstError(ps, i + 1)

\* Mutant of ChoiceList: learning_rate is drawn from the dropout_rate list.
ChoiceListCopied(ps, key) ==
    IF key = "learning_rate" THEN ps["dropout_rate"] ELSE ps[key]

\* The list random.choice draws the value of key from.
ChoiceList(ps, key) == ps[key]

\* Mutant of sample_hyperparameters: an error is swallowed and the entries
\* drawn before it are returned.
sample_hyperparameters_partial ==
    /\ pc = "idle"
    /\ \E c \in [Keys -> 1..2] :
        /\ \A key \in Keys :
              (key \in DOMAIN param_space /\ Len(param_space[key]) > 0)
                 => c[key] <= Len(param_space[key])
        /\ sampled' =
             [key \in {x \in Keys : x \in DOMAIN param_space
                                      /\ Len(param_space[x]) > 0}
                |-> param_space[key][c[key]]]
    /\ sample_state' = "returned"
    /\ sample_error' = "none"
    /\ UNCHANGED <<param_space, param_space_in, pc, argVars, localVars,
                   modelVars, loaderVars, loopVars, ioVars, histVars>>

sample_hyperparameters ==
    /\ pc = "idle"
    /\ IF FirstError(param_space, 1) # "none"
       THEN /\ sample_state' = "raised"
            /\ sample_error' = FirstError(param_space, 1)
            /\ sampled' = NoConfig
       ELSE /\ \E ih \in 1..Len(ChoiceList(param_space, "hidden_layers")),
                  id \in 1..Len(ChoiceList(param_space, "dropout_rate")),
                  il \in 1..Len(ChoiceList(param_space, "learning_rate")),
                  ib \in 1..Len(ChoiceList(param_space, "batch_size")) :
                sampled' =
                    [hidden_layers |-> ChoiceList(param_space, "hidden_layers")[ih],
                     dropout_rate |-> ChoiceList(param_space, "dropout_rate")[id],
                     learning_rate |-> ChoiceList(param_space, "learning_rate")[il],
                     batch_size |-> ChoiceList(param_space, "batch_size")[ib]]
            /\ sample_state' = "returned"
            /\ sample_error' = "none"
    /\ UNCHANGED <<param_space, param_space_in, pc, argVars, localVars,
                   modelVars, loaderVars, loopVars, ioVars, histVars>>

\* ----------------------------------------------------- train_and_evaluate
\* len(DataLoader(dataset, batch_size=b)): the last batch may be short.
NumBatches(size, b) == (size + b - 1) \div b

\* f"{x:.4f}": the nearest multiple of 1/10000, "inf" and "nan" as they are.
Format4(a) ==
    IF IsFinite(a) THEN Fin((2 * a.n * 10000 + a.d) \div (2 * a.d), 10000) ELSE a

ConfigMsg(p) == [kind |-> "Testing configuration", params |-> p, loss |-> Unset]
SummaryMsg(x) == [kind |-> "Validation Loss", params |-> NoConfig, loss |-> Format4(x)]

\* The call, with the caller's arguments bound, and line 39.
Enter ==
    /\ pc = "idle"
    /\ sample_state = "returned"
    /\ \E ts \in 0..MaxData, vs \in 0..MaxData, ne \in 0..MaxEpochs :
        /\ train_size' = ts
        /\ val_size' = vs
        /\ num_epochs' = ne
    /\ params' = sampled
    /\ params_in' = sampled
    /\ out' = Append(out, ConfigMsg(sampled))
    /\ pc' = "L41"
    /\ UNCHANGED <<sampleVars, localVars, modelVars, loaderVars, loopVars,
                   result, error, histVars>>

\* Mutant of ReadParams: batch_size is taken with params.pop('batch_size').
ReadParamsPop ==
    /\ pc = "L41"
    /\ hidden_layers' = params["hidden_layers"]
    /\ dropout_rate' = params["dropout_rate"]
    /\ learning_rate' = params["learning_rate"]
    /\ batch_size' = params["batch_size"]
    /\ params' = [key \in DOMAIN params \ {"batch_size"} |-> params[key]]
    /\ pc' = "L46"
    /\ UNCHANGED <<sampleVars, params_in, train_size, val_size, num_epochs,
                   modelVars, loaderVars, loopVars, ioVars, histVars>>

\* Lines 41-44.
ReadParams ==
    /\ pc = "L41"
    /\ hidden_layers' = params["hidden_layers"]
    /\ dropout_rate' = params["dropout_rate"]
    /\ learning_rate' = params["learning_rate"]
    /\ batch_size' = params["batch_size"]
    /\ pc' = "L46"
    /\ UNCHANGED <<sampleVars, argVars, modelVars, loaderVars, loopVars,
                   ioVars, histVars>>

\* Lines 46-47: a fresh module is in training mode, with no gradients.
BuildModel ==
    /\ pc = "L46"
    /\ built' = TRUE
    /\ mode' = "train"
    /\ weights' = 0
    /\ grads' = 0
    /\ pc' = "L49"
    /\ UNCHANGED <<sampleVars, argVars, localVars, grad_enabled, loaderVars,
                   loopVars, ioVars, histVars>>

\* Lines 49-50.  shuffle=True builds a RandomSampler, which in the torch
\* releases that check num_samples rejects an empty dataset with ValueError;
\* both outcomes are kept.
BuildLoaders ==
    /\ pc = "L49"
    /\ \/ /\ n_train' = NumBatches(train_size, batch_size)
          /\ n_val' = NumBatches(val_size, batch_size)
          /\ pc' = "L52"
          /\ UNCHANGED error
       \/ /\ train_size = 0
          /\ error' = "ValueError"
          /\ pc' = "raised"
          /\ UNCHANGED loaderVars
    /\ UNCHANGED <<sampleVars, argVars, localVars, modelVars, loopVars,
                   out, result, histVars>>

\* Line 52.
InitBest ==
    /\ pc = "L52"
    /\ best_validate_loss' = Inf
    /\ pc' = "L53"
    /\ UNCHANGED <<sampleVars, argVars, localVars, modelVars, loaderVars,
                   epoch, batch, loss, validate_loss, ioVars, histVars>>

\* Line 53: for epoch in range(num_epochs).
EpochLoop ==
    /\ pc = "L53"
    /\ IF epoch < num_epochs
       THEN epoch' = epoch + 1 /\ pc' = "L54"
       ELSE epoch' = epoch /\ pc' = "L74"
    /\ UNCHANGED <<sampleVars, argVars, localVars, modelVars, loaderVars,
                   batch, loss, validate_loss, best_validate_loss, ioVars,
                   histVars>>

\* Mutant of ModelTrain: model.train() is missing.
ModelTrainMissing ==
    /\ pc = "L54"
    /\ batch' = 0
    /\ phases' = Append(phases, "train")
    /\ pc' = "L55"
    /\ UNCHANGED <<sampleVars, argVars, localVars, modelVars, loaderVars,
                   epoch, loss, validate_loss, best_validate_loss, ioVars,
                   means, batch_ops, step_grads, w_at_val, items_finite>>

\* Line 54: model.train(), and the training loader's iterator is created.
ModelTrain ==
    /\ pc = "L54"
    /\ mode' = "train"
    /\ batch' = 0
    /\ phases' = Append(phases, "train")
    /\ pc' = "L55"
    /\ UNCHANGED <<sampleVars, argVars, localVars, built, grad_enabled,
                   weights, grads, loaderVars, epoch, loss, validate_loss,
                   best_validate_loss, ioVars, means, batch_ops, step_grads,
                   w_at_val, items_finite>>

\* Line 55: for X_batch, y_batch in train_loader.
TrainIter ==
    /\ pc = "L55"
    /\ IF batch < n_train
       THEN batch' = batch + 1 /\ batch_ops' = <<>> /\ pc' = "L56"
       ELSE batch' = batch /\ batch_ops' = batch_ops /\ pc' = "L62"
    /\ UNCHANGED <<sampleVars, argVars, localVars, modelVars, loaderVars,
                   epoch, loss, validate_loss, best_validate_loss, ioVars,
                   phases, means, step_grads, w_at_val, items_finite>>

\* Line 56: predictions = model(X_batch).
Forward ==
    /\ pc = "L56"
    /\ batch_ops' = Append(batch_ops, "forward")
    /\ pc' = "L57"
    /\ UNCHANGED <<sampleVars, argVars, localVars, modelVars, loaderVars,
                   loopVars, ioVars, phases, means, step_grads, w_at_val, items_finite>>

\* Line 57: loss = criterion(predictions, y_batch).
Loss ==
    /\ pc = "L57"
    /\ loss' = Tensor
    /\ batch_ops' = Append(batch_ops, "loss")
    /\ pc' = "L58"
    /\ UNCHANGED <<sampleVars, argVars, localVars, modelVars, loaderVars,
                   epoch, batch, validate_loss, best_validate_loss, ioVars,
                   phases, means, step_grads, w_at_val, items_finite>>

\* Mutant of ZeroGrad: the gradients are not reset.
ZeroGradMissing ==
    /\ pc = "L58"
    /\ batch_ops' = Append(batch_ops, "zero_grad")
    /\ pc' = "L59"
    /\ UNCHANGED <<sampleVars, argVars, localVars, modelVars, loaderVars,
                   loopVars, ioVars, phases, means, step_grads, w_at_val,
                   items_finite>>

\* Line 58: optimizer.zero_grad().
ZeroGrad ==
    /\ pc = "L58"
    /\ grads' = 0
    /\ batch_ops' = Append(batch_ops, "zero_grad")
    /\ pc' = "L59"
    /\ UNCHANGED <<sampleVars, argVars, localVars, built, mode, grad_enabled,
                   weights, loaderVars, loopVars, ioVars, phases, means,
                   step_grads, w_at_val, items_finite>>

\* Line 59: loss.backward() adds this batch's gradients to .grad.
Backward ==
    /\ pc = "L59"
    /\ grads' = grads + 1
    /\ batch_ops' = Append(batch_ops, "backward")
    /\ pc' = "L60"
    /\ UNCHANGED <<sampleVars, argVars, localVars, built, mode, grad_enabled,
                   weights, loaderVars, loopVars, ioVars, phases, means,
                   step_grads, w_at_val, items_finite>>

\* Line 60: optimizer.step() updates the parameters from .grad.
Step ==
    /\ pc = "L60"
    /\ weights' = weights + 1
    /\ step_grads' = grads
    /\ batch_ops' = Append(batch_ops, "step")
    /\ pc' = "L55"
    /\ UNCHANGED <<sampleVars, argVars, localVars, built, mode, grad_enabled,
                   grads, loaderVars, loopVars, ioVars, phases, means,
                   w_at_val, items_finite>>

\* Lines 62-63: model.eval(); validate_loss = 0.0.
ModelEval ==
    /\ pc = "L62"
    /\ mode' = "eval"
    /\ validate_loss' = Fin(0, 1)
    /\ phases' = Append(phases, "validate")
    /\ w_at_val' = weights
    /\ pc' = "L64"
    /\ UNCHANGED <<sampleVars, argVars, localVars, built, grad_enabled,
                   weights, grads, loaderVars, epoch, batch, loss,
                   best_validate_loss, ioVars, means, batch_ops, step_grads,
                   items_finite>>

\* Line 64: with torch.no_grad(), and the validation loader's iterator.
NoGradEnter ==
    /\ pc = "L64"
    /\ grad_enabled' = FALSE
    /\ batch' = 0
    /\ pc' = "L65"
    /\ UNCHANGED <<sampleVars, argVars, localVars, built, mode, weights,
                   grads, loaderVars, epoch, loss, validate_loss,
                   best_validate_loss, ioVars, histVars>>

\* Line 65: for X_batch, y_batch in validate_loader; leaving the loop also
\* leaves the no_grad block.
ValIter ==
    /\ pc = "L65"
    /\ IF batch < n_val
       THEN batch' = batch + 1 /\ grad_enabled' = grad_enabled /\ pc' = "L66"
       ELSE batch' = batch /\ grad_enabled' = TRUE /\ pc' = "L69"
    /\ UNCHANGED <<sampleVars, argVars, localVars, built, mode, weights,
                   grads, loaderVars, epoch, loss, validate_loss,
                   best_validate_loss, ioVars, histVars>>

\* Line 66.
ValForward ==
    /\ pc = "L66"
    /\ pc' = "L67"
    /\ UNCHANGED <<sampleVars, argVars, localVars, modelVars, loaderVars,
                   loopVars, ioVars, histVars>>

\* Line 67.
ValLoss ==
    /\ pc = "L67"
    /\ loss' = Tensor
    /\ pc' = "L68"
    /\ UNCHANGED <<sampleVars, argVars, localVars, modelVars, loaderVars,
                   epoch, batch, validate_loss, best_validate_loss, ioVars,
                   histVars>>

\* Line 68: validate_loss += loss.item(); item() yields the float.
ValAccumulate ==
    /\ pc = "L68"
    /\ \E item \in LossVals :
        /\ validate_loss' = FAdd(validate_loss, item)
        /\ items_finite' = (items_finite /\ IsFinite(item))
    /\ pc' = "L65"
    /\ UNCHANGED <<sampleVars, argVars, localVars, modelVars, loaderVars,
                   epoch, batch, loss, best_validate_loss, ioVars, phases,
                   means, batch_ops, step_grads, w_at_val>>

\* Mutant of Divide: the summary is printed on the way out of the error.
DivideFinally ==
    /\ pc = "L69"
    /\ IF n_val = 0
       THEN /\ error' = "ZeroDivisionError"
            /\ out' = Append(out, SummaryMsg(best_validate_loss))
            /\ pc' = "raised"
            /\ UNCHANGED <<validate_loss, means>>
       ELSE /\ validate_loss' = FDiv(validate_loss, n_val)
            /\ means' = Append(means, FDiv(validate_loss, n_val))
            /\ pc' = "L71"
            /\ UNCHANGED <<error, out>>
    /\ UNCHANGED <<sampleVars, argVars, localVars, modelVars, loaderVars,
                   epoch, batch, loss, best_validate_loss, result,
                   phases, batch_ops, step_grads, w_at_val, items_finite>>

\* Mutant of Divide: the division is skipped when the loader is empty.
DivideGuarded ==
    /\ pc = "L69"
    /\ validate_loss' = IF n_val = 0 THEN validate_loss ELSE FDiv(validate_loss, n_val)
    /\ means' = Append(means, validate_loss')
    /\ pc' = "L71"
    /\ UNCHANGED <<sampleVars, argVars, localVars, modelVars, loaderVars,
                   epoch, batch, loss, best_validate_loss, ioVars,
                   phases, batch_ops, step_grads, w_at_val, items_finite>>

\* Line 69: validate_loss /= len(validate_loader); a float divided by the
\* int 0 raises ZeroDivisionError, which nothing here catches.
Divide ==
    /\ pc = "L69"
    /\ IF n_val = 0
       THEN /\ error' = "ZeroDivisionError"
            /\ pc' = "raised"
            /\ UNCHANGED <<validate_loss, means>>
       ELSE /\ validate_loss' = FDiv(validate_loss, n_val)
            /\ means' = Append(means, FDiv(validate_loss, n_val))
            /\ pc' = "L71"
            /\ UNCHANGED error
    /\ UNCHANGED <<sampleVars, argVars, localVars, modelVars, loaderVars,
                   epoch, batch, loss, best_validate_loss, out, result,
                   phases, batch_ops, step_grads, w_at_val, items_finite>>

\* Mutant of UpdateBest: the loop is left when an epoch does not improve.
UpdateBestEarlyStop ==
    /\ pc = "L71"
    /\ IF FLt(validate_loss, best_validate_loss)
       THEN best_validate_loss' = validate_loss /\ pc' = "L53"
       ELSE best_validate_loss' = best_validate_loss /\ pc' = "L74"
    /\ UNCHANGED <<sampleVars, argVars, localVars, modelVars, loaderVars,
                   epoch, batch, loss, validate_loss, ioVars, histVars>>

\* Mutant of UpdateBest: the last epoch's loss is kept, not the least.
UpdateBestAlways ==
    /\ pc = "L71"
    /\ best_validate_loss' = validate_loss
    /\ pc' = "L53"
    /\ UNCHANGED <<sampleVars, argVars, localVars, modelVars, loaderVars,
                   epoch, batch, loss, validate_loss, ioVars, histVars>>

\* Mutant of UpdateBest: the comparison is reversed.
UpdateBestGreater ==
    /\ pc = "L71"
    /\ best_validate_loss' =
         IF FLt(best_validate_loss, validate_loss)
         THEN validate_loss ELSE best_validate_loss
    /\ pc' = "L53"
    /\ UNCHANGED <<sampleVars, argVars, localVars, modelVars, loaderVars,
                   epoch, batch, loss, validate_loss, ioVars, histVars>>

\* Lines 71-72.
UpdateBest ==
    /\ pc = "L71"
    /\ best_validate_loss' =
         IF FLt(validate_loss, best_validate_loss)
         THEN validate_loss ELSE best_validate_loss
    /\ pc' = "L53"
    /\ UNCHANGED <<sampleVars, argVars, localVars, modelVars, loaderVars,
                   epoch, batch, loss, validate_loss, ioVars, histVars>>

\* Line 74.
PrintSummary ==
    /\ pc = "L74"
    /\ out' = Append(out, SummaryMsg(best_validate_loss))
    /\ pc' = "L75"
    /\ UNCHANGED <<sampleVars, argVars, localVars, modelVars, loaderVars,
                   loopVars, result, error, histVars>>

\* Line 75.
Return ==
    /\ pc = "L75"
    /\ result' = <<best_validate_loss, params>>
    /\ pc' = "returned"
    /\ UNCHANGED <<sampleVars, argVars, localVars, modelVars, loaderVars,
                   loopVars, out, error, histVars>>

Next ==
    \/ sample_hyperparameters
    \/ Enter
    \/ ReadParams
    \/ BuildModel
    \/ BuildLoaders
    \/ InitBest
    \/ EpochLoop
    \/ ModelTrain
    \/ TrainIter
    \/ Forward
    \/ Loss
    \/ ZeroGrad
    \/ Backward
    \/ Step
    \/ ModelEval
    \/ NoGradEnter
    \/ ValIter
    \/ ValForward
    \/ ValLoss
    \/ ValAccumulate
    \/ Divide
    \/ UpdateBest
    \/ PrintSummary
    \/ Return

Spec == Init /\ [][Next]_vars
\* ================================================================ claims
\* a == b and a <= b on floats, for stating the properties: nan equals
\* nothing and is ordered with nothing.
FEq(a, b) ==
    CASE IsNaN(a) \/ IsNaN(b) -> FALSE
      [] a.k = "inf" \/ b.k = "inf" -> a.k = b.k
      [] OTHER -> a.n * b.d = b.n * a.d

FLe(a, b) == FLt(a, b) \/ FEq(a, b)

\* Positions at which best_validate_loss has been assigned (after line 52).
BestPcs == {"L53", "L54", "L55", "L56", "L57", "L58", "L59", "L60", "L62",
            "L64", "L65", "L66", "L67", "L68", "L69", "L71", "L74", "L75",
            "returned"}

\* Epochs whose lines 71-72 have run.
Completed == IF pc = "L71" THEN Len(means) - 1 ELSE Len(means)

\* x is a least element of S.
IsMinOf(x, S) == (\E y \in S : FEq(x, y)) /\ (\A y \in S : FLe(x, y))

MeansUpTo(k) == {means[i] : i \in 1..k} \cup {Inf}
NonNaNMeansUpTo(k) == {m \in MeansUpTo(k) : ~IsNaN(m)}

\* C1 as stated: after each completed epoch k the tracked best loss is the
\* minimum of the mean validation losses of epochs 1..k (+inf before epoch
\* 1); the returned loss is <= every epoch's mean and, for num_epochs = 1,
\* equals that epoch's mean.
C1_Original ==
    /\ pc \in BestPcs => IsMinOf(best_validate_loss, MeansUpTo(Completed))
    /\ (pc = "returned" /\ num_epochs >= 1) =>
          /\ \A i \in 1..Len(means) : FLe(result[1], means[i])
          /\ num_epochs = 1 => FEq(result[1], means[1])

\* C1 amended: after each completed epoch k the tracked best loss is the
\* minimum of the mean validation losses of epochs 1..k that are not nan
\* (+inf when there is none); the returned loss is that minimum over all
\* num_epochs epochs, so it is <= every epoch mean that is not nan and, for
\* num_epochs = 1, equals the epoch's mean unless that mean is nan.
C1_RunningMin ==
    /\ pc \in BestPcs =>
          IsMinOf(best_validate_loss, NonNaNMeansUpTo(Completed))
    /\ (pc = "returned" /\ num_epochs >= 1) =>
          /\ Len(means) = num_epochs
          /\ IsMinOf(result[1], NonNaNMeansUpTo(num_epochs))
          /\ \A i \in 1..Len(means) :
                ~IsNaN(means[i]) => FLe(result[1], means[i])
          /\ (num_epochs = 1 /\ ~IsNaN(means[1])) => FEq(result[1], means[1])

\* C1 witness: a call returned whose second epoch improved on the first.
C1_Witness ==
    /\ pc = "returned"
    /\ num_epochs >= 2
    /\ FLt(means[2], means[1])
    /\ FEq(result[1], means[2])

\* C2 as stated: a call with an empty validate_dataset never returns a
\* result, whatever num_epochs and train_dataset are.
C2_Original ==
    (pc # "idle" /\ val_size = 0) => (pc # "returned" /\ result = NoResult)

\* C2 amended: a call with an empty validate_dataset and num_epochs >= 1
\* never returns a result; unless loading the training data fails first, it
\* ends in ZeroDivisionError at the end of the first epoch's validation
\* phase.  With num_epochs = 0 the loop body never runs.
C2_EmptyValidationRaises ==
    (pc # "idle" /\ val_size = 0 /\ num_epochs >= 1) =>
        /\ pc \notin {"L71", "L74", "L75", "returned"}
        /\ result = NoResult
        /\ epoch <= 1
        /\ pc = "raised" => error \in {"ZeroDivisionError", "ValueError"}
        /\ (pc = "raised" /\ train_size > 0) =>
              (error = "ZeroDivisionError" /\ epoch = 1 /\ Len(phases) = 2)

\* C2 witness: the division by zero ended a call with training data.
C2_Witness ==
    /\ pc = "raised"
    /\ error = "ZeroDivisionError"
    /\ val_size = 0
    /\ train_size > 0
    /\ weights > 0

\* C3 as stated: a call that returns, with a non-empty validate_dataset and
\* finite per-batch losses, returns a finite loss for any num_epochs >= 0.
C3_Original ==
    (pc = "returned" /\ val_size > 0 /\ items_finite) => IsFinite(result[1])

\* C3 amended: a call that returns with num_epochs >= 1, a non-empty
\* validate_dataset and finite per-batch losses whose sum stays within the
\* float range in every epoch returns a finite loss.
C3_FiniteBest ==
    (/\ pc = "returned"
     /\ num_epochs >= 1
     /\ val_size > 0
     /\ items_finite
     /\ \A i \in 1..Len(means) : IsFinite(means[i]))
        => IsFinite(result[1])

\* C3 witness: such a call returned after two epochs of two batches each.
C3_Witness ==
    /\ pc = "returned"
    /\ num_epochs >= 2
    /\ n_val >= 2
    /\ items_finite
    /\ \A i \in 1..Len(means) : IsFinite(means[i])
    /\ IsFinite(result[1])
    /\ result[1].n > 0

\* C4: params keeps, in every state of the call, the four entries it had on
\* entry, and the second component of the returned pair is that
\* configuration.
C4_ParamsUnmodified ==
    /\ pc # "idle" => (params = params_in /\ DOMAIN params = Keys)
    /\ pc = "returned" => result[2] = params_in

\* C4 witness: a call that trained returned its configuration.
C4_Witness ==
    /\ pc = "returned"
    /\ weights > 0
    /\ Len(means) > 0
    /\ result[2] = params_in
    /\ params_in = sampled
\* Every required key is present with a non-empty candidate list.
Complete(ps) ==
    \A key \in Keys : key \in DOMAIN ps /\ Len(ps[key]) > 0

\* C5: for a parameter space whose four keys each map to a non-empty
\* candidate list, every call of sample_hyperparameters, whatever the random
\* source yields, returns a configuration with exactly the four keys, each
\* value a member of its candidate list; with single-candidate lists the
\* result is that one configuration.
C5_SampleMembership ==
    (sample_state # "not_called" /\ Complete(param_space)) =>
        /\ sample_state = "returned"
        /\ DOMAIN sampled = Keys
        /\ \A key \in Keys : sampled[key] \in Range(param_space[key])
        /\ (\A key \in Keys : Len(param_space[key]) = 1) =>
              sampled = [key \in Keys |-> param_space[key][1]]

\* C5 witness: a call drew the second candidate of a two-candidate list.
C5_Witness ==
    /\ sample_state = "returned"
    /\ Len(param_space["learning_rate"]) = 2
    /\ sampled["learning_rate"] = param_space["learning_rate"][2]
    /\ sampled["hidden_layers"] = param_space["hidden_layers"][1]

\* C6: when the parameter space lacks a required key or maps one to an empty
\* list, the call ends in an error and returns no configuration, complete or
\* partial; the parameter space is unchanged after every call.
C6_SampleErrors ==
    /\ (sample_state # "not_called" /\ ~Complete(param_space)) =>
          /\ sample_state = "raised"
          /\ sample_error \in {"KeyError", "IndexError"}
          /\ sampled = NoConfig
          /\ pc = "idle"
    /\ param_space = param_space_in

\* C6 witness: a call failed on an empty list that follows a usable one.
C6_Witness ==
    /\ sample_state = "raised"
    /\ sample_error = "IndexError"
    /\ "hidden_layers" \in DOMAIN param_space
    /\ Len(param_space["hidden_layers"]) > 0
    /\ param_space = param_space_in

\* C7: with non-empty datasets a call enters exactly num_epochs training
\* phases and num_epochs validation phases, alternating train, validate from
\* a training phase, every training phase stepping once per batch, never
\* ends in an error, can always take its next step until it returns, and
\* returns only after the last validation phase.
C7_Alternation ==
    (pc # "idle" /\ train_size > 0 /\ val_size > 0) =>
        /\ pc # "raised"
        /\ Len(phases) <= 2 * num_epochs
        /\ \A i \in 1..Len(phases) :
              phases[i] = IF i % 2 = 1 THEN "train" ELSE "validate"
        /\ pc \in {"L74", "L75", "returned"} =>
              /\ Len(phases) = 2 * num_epochs
              /\ Len(means) = num_epochs
              /\ epoch = num_epochs
              /\ weights = num_epochs * NumBatches(train_size, batch_size)
        /\ pc # "returned" => ENABLED Next

\* C7 witness: a two-epoch call on non-empty datasets returned.
C7_Witness ==
    /\ pc = "returned"
    /\ train_size > 0
    /\ val_size > 0
    /\ num_epochs = 2
    /\ phases = <<"train", "validate", "train", "validate">>

IsPrefix(a, b) == Len(a) <= Len(b) /\ \A i \in 1..Len(a) : a[i] = b[i]

\* C8 as stated: on each mini-batch the order is predictions, loss, backward,
\* optimizer step and only then the gradient reset.
C8_Original ==
    IsPrefix(batch_ops, <<"forward", "loss", "backward", "step", "zero_grad">>)

\* C8 amended: on each mini-batch the order is predictions, loss, gradient
\* reset, backward, optimizer step; the reset of a batch precedes that
\* batch's backward pass, so every optimizer step is applied to the
\* gradients of its own batch alone.
C8_BatchOrder ==
    /\ IsPrefix(batch_ops, <<"forward", "loss", "zero_grad", "backward", "step">>)
    /\ (pc = "L55" /\ batch > 0) => Len(batch_ops) = 5
    /\ pc = "L60" => grads = 1
    /\ weights > 0 => step_grads = 1

\* C8 witness: a second batch has gone through its optimizer step.
C8_Witness ==
    /\ pc = "L55"
    /\ weights >= 2
    /\ batch_ops = <<"forward", "loss", "zero_grad", "backward", "step">>

\* C9: in every epoch each training batch is processed in training mode,
\* each validation batch in evaluation mode with gradients disabled, and the
\* trainable parameters are the same from the start of a validation phase
\* to its end.
C9_Modes ==
    /\ pc \in {"L56", "L57", "L58", "L59", "L60"} => mode = "train"
    /\ pc \in {"L66", "L67", "L68"} => (mode = "eval" /\ ~grad_enabled)
    /\ pc \in {"L64", "L65", "L66", "L67", "L68", "L69", "L71"} =>
          weights = w_at_val

\* C9 witness: a training batch of the second epoch, after a validation
\* phase had switched the model to evaluation mode.
C9_Witness ==
    /\ pc = "L56"
    /\ epoch = 2
    /\ Len(means) = 1
    /\ mode = "train"

HasSummary == \E i \in 1..Len(out) : out[i].kind = "Validation Loss"

\* C10: the configuration message is printed before the model is built and
\* before any training step; the summary message is printed only after the
\* last epoch has completed, with the best loss; a call that ends in an
\* error prints no summary and the error reaches the caller.
C10_Messages ==
    /\ Len(out) = 0 => (pc = "idle" /\ ~built /\ weights = 0)
    /\ pc # "idle" => out[1] = ConfigMsg(params_in)
    /\ HasSummary =>
          /\ pc \in {"L75", "returned"}
          /\ epoch = num_epochs
          /\ Len(means) = num_epochs
          /\ out = <<ConfigMsg(params_in), SummaryMsg(best_validate_loss)>>
    /\ pc = "returned" => HasSummary
    /\ pc = "raised" =>
          /\ out = <<ConfigMsg(params_in)>>
          /\ error # "none"
          /\ result = NoResult

\* C10 witness: a call that trained ended in the division by zero.
C10_Witness ==
    /\ pc = "raised"
    /\ error = "ZeroDivisionError"
    /\ weights > 0
    /\ out = <<ConfigMsg(params_in)>>
====
